---- MODULE Spec2Model ----
(***************************************************************************)
(* A model of src/src/main.cpp: the configuration lookups (_getValue), the *)
(* signal handler and get_key_or_signal, and event_loop called from main.  *)
(***************************************************************************)
EXTENDS Integers, Sequences, FiniteSets, TLC

\* ------------------------------------------------------------------ bounds
\* Number of events app.Wait() delivers in one run.
MaxEvents == 3
\* Largest configured frame-count limit (options->Get().frames).
MaxFrames == 2
\* Largest configured timeout (options->Get().timeout), in clock ticks.
MaxTimeout == 1
\* Largest reading of high_resolution_clock::now(), in clock ticks.
MaxClock == 3

\* ------------------------------------------------------------------ state
VARIABLES
    pc,               \* position of the control thread in main / event_loop
    status,           \* process exit status: "running", "0" or "-1"
    cfgLoaded,        \* the global cfg holds the settings of the file
    param,            \* index of the next _getValue call of main
    options,          \* frames, timeout, keypress, signal of VideoOptions
    count,            \* loop counter of event_loop (unsigned int)
    start_time,       \* start_time of event_loop
    now,              \* last reading of the clock
    key,              \* key of get_key_or_signal / event_loop
    timeout,          \* local bool timeout of event_loop
    frameout,         \* local bool frameout of event_loop
    signal_received,  \* the static int written by default_signal_handler
    camera,           \* the camera is started
    encoder,          \* the encoder is started
    calls,            \* calls made since the last app.Wait() returned
    cause,            \* why event_loop returned
    nEvents,          \* events delivered by app.Wait()
    nRequestComplete, \* RequestComplete events delivered
    nTimeoutEv,       \* Timeout events delivered
    nDeferred,        \* EncodeBuffer calls that returned false
    nCalls,           \* how often each camera / encoder lifecycle call was made
    lastDefer,        \* clock reading of start or of the latest deferred result
    intState,         \* SIGINT delivery relative to get_key_or_signal calls
    stopPending,      \* SIGUSR2 or SIGPIPE was pending when get_key_or_signal was
                      \* entered, and no handler has run since
    msg,              \* type of the message app.Wait() returned last
    typed,            \* first character of the line getline read in this call
    pollSig,          \* signal pending when get_key_or_signal was entered,
                      \* "changed" once a handler has run during the call
    unmapped,         \* signal_received holds SIGUSR1, SIGUSR2 or SIGPIPE that no
                      \* get_key_or_signal call has mapped to a key
    nAcceptedSince,   \* EncodeBuffer calls that returned true since the latest
                      \* one that returned false
    lifecycleOK,      \* every start / stop call so far found its device in the
                      \* state the call expects
    get               \* one _getValue call: its arguments and its outcome

vars == <<pc, status, cfgLoaded, param, options, count, start_time, now,
          key, timeout, frameout, signal_received, camera, encoder, calls,
          cause, nEvents, nRequestComplete, nTimeoutEv, nDeferred, nCalls,
          lastDefer, intState, stopPending, msg, typed, pollSig, unmapped,
          nAcceptedSince, lifecycleOK, get>>

mainVars == <<pc, status, cfgLoaded, param, options, count, start_time,
              now, key, timeout, frameout, signal_received, camera, encoder,
              calls, cause, nEvents, nRequestComplete, nTimeoutEv, nDeferred,
              nCalls, lastDefer, intState, stopPending, msg, typed, pollSig,
              unmapped, nAcceptedSince, lifecycleOK>>

\* ------------------------------------------------- Parameter Resolver
\* What cfg.lookup(parameter) finds: nothing, or a setting of some type.
Absent == [t |-> "absent", v |-> 0]
IntSetting(n) == [t |-> "int", v |-> n]
FloatSetting(n) == [t |-> "float", v |-> n]
StringSetting(s) == [t |-> "string", s |-> s]

\* The outcome of a call: a returned value, or an exception leaving it.
Returned(v) == [exc |-> "none", v |-> v]
Thrown(e) == [exc |-> e]

\* Value returned for a setting above max.
OverMaxValue(max) == 100

\* The exception cfg.lookup and the conversion to the requested type raise:
\* SettingNotFoundException for a missing key, SettingTypeException for a
\* setting of another type.
LookupError(stored, type) ==
    IF stored.t = "absent" THEN "SettingNotFoundException"
    ELSE IF stored.t # type THEN "SettingTypeException"
    ELSE "none"

\* int _getValue(std::string parameter, int defaultValue, int min, int max)
getValueBounded(stored, defaultValue, min, max) ==
    LET e == LookupError(stored, "int") IN
    IF e = "SettingNotFoundException" THEN Returned(defaultValue)
    ELSE IF e # "none" THEN Thrown(e)
    ELSE IF stored.v > max THEN Returned(OverMaxValue(max))
    ELSE IF stored.v < 0 THEN Returned(0)
    ELSE Returned(stored.v)

\* int _getValue(std::string parameter, int defaultValue)
getValueInt(stored, defaultValue) ==
    LET e == LookupError(stored, "int") IN
    IF e = "SettingNotFoundException" THEN Returned(defaultValue)
    ELSE IF e # "none" THEN Thrown(e)
    ELSE Returned(stored.v)

\* float _getValue(std::string parameter, float defaultValue)
getValueFloat(stored, defaultValue) ==
    LET e == LookupError(stored, "float") IN
    IF e = "SettingNotFoundException" THEN Returned(defaultValue)
    ELSE IF e # "none" THEN Thrown(e)
    ELSE Returned(stored.v)

\* std::string _getValue(std::string parameter, std::string defaultValue)
getValueString(stored, defaultValue) ==
    LET e == LookupError(stored, "string") IN
    IF e = "SettingNotFoundException" THEN Returned(defaultValue)
    ELSE IF e # "none" THEN Thrown(e)
    ELSE Returned(stored.s)

\* The _getValue overload chosen by the type of the default argument.
getValue(type, stored, defaultValue) ==
    CASE type = "int" -> getValueInt(stored, defaultValue)
      [] type = "float" -> getValueFloat(stored, defaultValue)
      [] type = "string" -> getValueString(stored, defaultValue)

\* --------------------------------------------------------------- main
\* The _getValue calls of main, in order.
Params == <<
    [name |-> "width", type |-> "int", def |-> 1280],
    [name |-> "height", type |-> "int", def |-> 720],
    [name |-> "framerate", type |-> "int", def |-> 25],
    [name |-> "awb", type |-> "string", def |-> "auto"],
    [name |-> "b_gain", type |-> "float", def |-> 0],
    [name |-> "r_gain", type |-> "float", def |-> 0],
    [name |-> "saturation", type |-> "int", def |-> 1],
    [name |-> "sharpness", type |-> "int", def |-> 1],
    [name |-> "contrast", type |-> "int", def |-> 1],
    [name |-> "brightness", type |-> "int", def |-> 50],
    [name |-> "exposuremode", type |-> "string", def |-> "auto"],
    [name |-> "meteringmode", type |-> "string", def |-> "average"] >>

\* What a configuration file may hold for one key. A file that was not read
\* leaves cfg empty, so every lookup finds nothing.
Settings(loaded) ==
    IF loaded
    THEN {Absent, IntSetting(1), FloatSetting(1), StringSetting("s")}
    ELSE {Absent}

RotationSettings(loaded) ==
    IF loaded
    THEN {Absent, IntSetting(0), IntSetting(90), IntSetting(45), StringSetting("s")}
    ELSE {Absent}

\* libcamera::transformFromRotation sets ok for the quarter turns only.
RotationOK(angle) == (angle % 360) \in {0, 90, 180, 270}

\* The state of the configuration file read by loadConfig.
ConfigFiles == {"ok", "missing", "malformed"}

\* loadConfig: 0 when the file was read, EXIT_FAILURE when it is missing or
\* malformed.
loadConfigResult(file) == IF file = "ok" THEN "0" ELSE "EXIT_FAILURE"

\* main calls loadConfig() and drops the value it returns.
LoadConfig ==
    /\ pc = "main"
    /\ \E file \in ConfigFiles :
          cfgLoaded' = (loadConfigResult(file) = "0")
    /\ pc' = "resolve"
    /\ UNCHANGED <<status, param, options, count, start_time, now, key, timeout,
                   frameout, signal_received, camera, encoder, calls, cause,
                   nEvents, nRequestComplete, nTimeoutEv, nDeferred, nCalls,
                   lastDefer, intState, stopPending, get>>
    /\ UNCHANGED <<msg, typed, pollSig, unmapped, nAcceptedSince, lifecycleOK>>

\* main returning 0 from its catch block.
FatalReturnsZero ==
    /\ pc' = "done"
    /\ status' = "0"

\* The exception of type std::exception caught in main: return -1.
Fatal ==
    /\ pc' = "done"
    /\ status' = "-1"

\* One options->Set().x = _getValue(name, default) line of main.
Resolve ==
    /\ pc = "resolve"
    /\ \E stored \in Settings(cfgLoaded) :
          LET p == Params[param]
              r == getValue(p.type, stored, p.def) IN
          IF r.exc # "none"
          THEN Fatal /\ param' = param
          ELSE /\ param' = param + 1
               /\ pc' = IF param = Len(Params) THEN "rotation" ELSE "resolve"
               /\ status' = status
    /\ UNCHANGED <<cfgLoaded, options, count, start_time, now, key,
                   timeout, frameout, signal_received, camera, encoder, calls,
                   cause, nEvents, nRequestComplete, nTimeoutEv, nDeferred,
                   nCalls, lastDefer, intState, stopPending, get>>
    /\ UNCHANGED <<msg, typed, pollSig, unmapped, nAcceptedSince, lifecycleOK>>

\* mirrored_rotation(options)
MirroredRotation ==
    /\ pc = "rotation"
    /\ \E mirror \in Settings(cfgLoaded), rot \in RotationSettings(cfgLoaded) :
          LET m == getValueString(mirror, "none")
              r == getValueInt(rot, 0) IN
          IF m.exc # "none" \/ r.exc # "none" THEN Fatal
          ELSE IF ~RotationOK(r.v) THEN Fatal
          ELSE pc' = "setup" /\ status' = status
    /\ UNCHANGED <<cfgLoaded, param, options, count, start_time, now,
                   key, timeout, frameout, signal_received, camera, encoder,
                   calls, cause, nEvents, nRequestComplete, nTimeoutEv,
                   nDeferred, nCalls, lastDefer, intState, stopPending, get>>
    /\ UNCHANGED <<msg, typed, pollSig, unmapped, nAcceptedSince, lifecycleOK>>

\* ---------------------------------------------------------- event_loop
Signals == {"SIGINT", "SIGUSR1", "SIGUSR2", "SIGPIPE"}
NoSignal == "0"
NoKey == "0"
\* Nothing to read on standard input (POLLIN not set).
NoLine == "no line"
\* First characters of a line typed on standard input.
Chars == {"x", "X", "\n", "a"}

OptionValues ==
    [frames : 0..MaxFrames, timeout : 0..MaxTimeout,
     keypress : BOOLEAN, signal : BOOLEAN]

LifecycleCalls ==
    {"OpenCamera", "StartEncoder", "StartCamera", "StopCamera", "StopEncoder"}

RECURSIVE Occurrences(_, _)
Occurrences(seq, c) ==
    IF seq = <<>> THEN 0
    ELSE (IF Head(seq) = c THEN 1 ELSE 0) + Occurrences(Tail(seq), c)

RECURSIVE StartedAfter(_, _, _, _)
\* Whether a device is started after the calls of seq.
StartedAfter(started, seq, startCall, stopCall) ==
    IF seq = <<>> THEN started
    ELSE StartedAfter(IF Head(seq) = startCall THEN TRUE
                      ELSE IF Head(seq) = stopCall THEN FALSE
                      ELSE started,
                      Tail(seq), startCall, stopCall)

RECURSIVE WellFormed(_, _, _)
\* Every call of seq finds its device in the state the call expects:
\* StartCamera a stopped camera and a started encoder, StopCamera a started
\* camera, StartEncoder a stopped encoder, StopEncoder a started encoder and a
\* stopped camera.
WellFormed(cam, enc, seq) ==
    IF seq = <<>> THEN TRUE
    ELSE LET c == Head(seq) IN
         /\ c = "StartCamera" => (~cam /\ enc)
         /\ c = "StopCamera" => cam
         /\ c = "StartEncoder" => ~enc
         /\ c = "StopEncoder" => (enc /\ ~cam)
         /\ WellFormed(StartedAfter(cam, <<c>>, "StartCamera", "StopCamera"),
                       StartedAfter(enc, <<c>>, "StartEncoder", "StopEncoder"),
                       Tail(seq))

\* The thread makes the calls of seq, in this order, after those in log.
Do(log, seq) ==
    /\ calls' = log \o seq
    /\ nCalls' = [c \in LifecycleCalls |-> nCalls[c] + Occurrences(seq, c)]
    /\ camera' = StartedAfter(camera, seq, "StartCamera", "StopCamera")
    /\ encoder' = StartedAfter(encoder, seq, "StartEncoder", "StopEncoder")
    /\ lifecycleOK' = (lifecycleOK /\ WellFormed(camera, encoder, seq))

\* Lines 177-181: the options of the application and the output sink.
Setup ==
    /\ pc = "setup"
    /\ \E path \in Settings(cfgLoaded) :
          IF getValueString(path, "/tmp/neopixel.state").exc # "none"
          THEN Fatal /\ options' = options
          ELSE /\ pc' = "start"
               /\ status' = status
               /\ options' \in OptionValues
    /\ UNCHANGED <<cfgLoaded, param, count, start_time, now, key,
                   timeout, frameout, signal_received, camera, encoder, calls,
                   cause, nEvents, nRequestComplete, nTimeoutEv, nDeferred,
                   nCalls, lastDefer, intState, stopPending, get>>
    /\ UNCHANGED <<msg, typed, pollSig, unmapped, nAcceptedSince, lifecycleOK>>

\* The camera started before the encoder.
StartCallsCameraFirst ==
    <<"OpenCamera", "ConfigureVideo", "StartCamera", "StartEncoder">>

\* Calls of lines 183-186.
StartCalls == <<"OpenCamera", "ConfigureVideo", "StartEncoder", "StartCamera">>

\* Lines 183-199: start the devices, record start_time, install the signal
\* handlers, count = 0.
Start ==
    /\ pc = "start"
    /\ Do(<<>>, StartCalls)
    /\ start_time' = now
    /\ lastDefer' = now
    /\ count' = 0
    /\ pc' = "wait"
    /\ UNCHANGED <<status, cfgLoaded, param, options, now, key, timeout,
                   frameout, signal_received, cause, nEvents, nRequestComplete,
                   nTimeoutEv, nDeferred, intState, stopPending, get>>
    /\ nAcceptedSince' = 0
    /\ UNCHANGED <<msg, typed, pollSig, unmapped>>

\* The for loop's count++. count is an unsigned int; it is at most MaxEvents
\* here, so the increment never wraps.
Increment(c) == c + 1

\* The Timeout branch restarting the encoder as well.
TimeoutCallsWithEncoder ==
    <<"StopCamera", "StopEncoder", "StartEncoder", "StartCamera">>

\* Calls of the Timeout branch, lines 205-206.
TimeoutCalls == <<"StopCamera", "StartCamera">>

\* app.Wait() returns a message of type Timeout: lines 202-208, then the
\* continue runs the loop's count++.
EvTimeout ==
    /\ pc = "wait"
    /\ nEvents < MaxEvents
    /\ nEvents' = nEvents + 1
    /\ nTimeoutEv' = nTimeoutEv + 1
    /\ Do(<<>>, TimeoutCalls)
    /\ count' = Increment(count)
    /\ pc' = "wait"
    /\ UNCHANGED <<status, cfgLoaded, param, options, start_time, now,
                   key, timeout, frameout, signal_received, cause,
                   nRequestComplete, nDeferred, lastDefer, intState, stopPending,
                   get>>
    /\ msg' = "Timeout"
    /\ UNCHANGED <<typed, pollSig, unmapped, nAcceptedSince>>

\* app.Wait() returns Quit: line 210 returns, main returns 0.
EvQuit ==
    /\ pc = "wait"
    /\ nEvents < MaxEvents
    /\ nEvents' = nEvents + 1
    /\ calls' = <<>>
    /\ cause' = "upstream-quit"
    /\ pc' = "done"
    /\ status' = "0"
    /\ UNCHANGED <<cfgLoaded, param, options, count, start_time, now,
                   key, timeout, frameout, signal_received, camera, encoder,
                   nRequestComplete, nTimeoutEv, nDeferred, nCalls, lastDefer,
                   intState, stopPending, get>>
    /\ msg' = "Quit"
    /\ UNCHANGED <<typed, pollSig, unmapped, nAcceptedSince, lifecycleOK>>

\* app.Wait() returns any other message that is not RequestComplete: line 212
\* throws, main catches and returns -1.
EvUnrecognised ==
    /\ pc = "wait"
    /\ nEvents < MaxEvents
    /\ nEvents' = nEvents + 1
    /\ calls' = <<>>
    /\ Fatal
    /\ UNCHANGED <<cfgLoaded, param, options, count, start_time, now,
                   key, timeout, frameout, signal_received, camera, encoder,
                   cause, nRequestComplete, nTimeoutEv, nDeferred, nCalls,
                   lastDefer, intState, stopPending, get>>
    /\ msg' = "Other"
    /\ UNCHANGED <<typed, pollSig, unmapped, nAcceptedSince, lifecycleOK>>

\* app.Wait() returns RequestComplete: line 213 enters get_key_or_signal with
\* key = 0.
EvRequestComplete ==
    /\ pc = "wait"
    /\ nEvents < MaxEvents
    /\ nEvents' = nEvents + 1
    /\ nRequestComplete' = nRequestComplete + 1
    /\ calls' = <<"get_key_or_signal">>
    /\ key' = NoKey
    /\ stopPending' = (signal_received \in {"SIGUSR2", "SIGPIPE"})
    /\ intState' = IF intState = "delivered" THEN "due" ELSE intState
    /\ pc' = "L141"
    /\ UNCHANGED <<status, cfgLoaded, param, options, count, start_time,
                   now, timeout, frameout, signal_received, camera, encoder,
                   cause, nTimeoutEv, nDeferred, nCalls, lastDefer, get>>
    /\ msg' = "RequestComplete"
    /\ typed' = NoLine
    /\ pollSig' = signal_received
    /\ UNCHANGED <<unmapped, nAcceptedSince, lifecycleOK>>

\* ---------------------------------------------------- get_key_or_signal
\* The signals lines 156-159 map to a key.
MappedSignals == {"SIGUSR1", "SIGUSR2", "SIGPIPE"}

\* Positions of the control thread inside get_key_or_signal.
PollPcs == {"L141", "L156", "L158a", "L158b", "L160"}
\* Positions at which a signal is delivered. The handlers are installed from
\* line 196 on; a signal delivered in lines 214-239 is read by the same call
\* of get_key_or_signal as one delivered at the next app.Wait().
HandlerPcs == {"wait"} \cup PollPcs

\* What poll(p, 1, 0) and getline can deliver when keypress is set.
StdinInputs(keypress) == IF keypress THEN Chars \cup {NoLine} ELSE {NoLine}

\* The line read by getline is dropped.
KeyAfterStdinDropped(k, line) == k

\* Lines 143-153: key after the keypress block.
KeyAfterStdin(k, line) == IF line = NoLine THEN k ELSE line

\* Line 141: the test of the pending signal against SIGINT.
IsInterrupt(sig) == sig = "SIGINT"

\* Lines 141-154: the SIGINT test, the keypress block, the test of the signal
\* option.
Poll141 ==
    /\ pc = "L141"
    /\ IF IsInterrupt(signal_received)
       THEN /\ key' = "x"
            /\ typed' = NoLine
            /\ pc' = "L214"
       ELSE \E line \in StdinInputs(options.keypress) :
               /\ key' = KeyAfterStdin(key, line)
               /\ typed' = line
               /\ pc' = IF options.signal THEN "L156" ELSE "L214"
    /\ UNCHANGED <<status, cfgLoaded, param, options, count, start_time,
                   now, timeout, frameout, signal_received, camera, encoder,
                   calls, cause, nEvents, nRequestComplete, nTimeoutEv,
                   nDeferred, nCalls, lastDefer, intState, stopPending, get>>
    /\ UNCHANGED <<msg, pollSig, unmapped, nAcceptedSince, lifecycleOK>>

\* Line 156: if (signal_received == SIGUSR1) key = '\n';
Poll156 ==
    /\ pc = "L156"
    /\ IF signal_received = "SIGUSR1"
       THEN key' = "\n" /\ pc' = "L160"
       ELSE key' = key /\ pc' = "L158a"
    /\ UNCHANGED <<status, cfgLoaded, param, options, count, start_time,
                   now, timeout, frameout, signal_received, camera, encoder,
                   calls, cause, nEvents, nRequestComplete, nTimeoutEv,
                   nDeferred, nCalls, lastDefer, intState, stopPending, get>>
    /\ unmapped' = (unmapped /\ signal_received # "SIGUSR1")
    /\ UNCHANGED <<msg, typed, pollSig, nAcceptedSince, lifecycleOK>>

\* SIGUSR2 and SIGPIPE mapped to the newline key, as SIGUSR1 is.
StopSignalKeyNewline == "\n"

\* Key for a pending signal that line 158 matches (line 159).
StopSignalKey == "x"

\* Line 158, left operand: signal_received == SIGUSR2
Poll158a ==
    /\ pc = "L158a"
    /\ IF signal_received = "SIGUSR2"
       THEN key' = StopSignalKey /\ pc' = "L160"
       ELSE key' = key /\ pc' = "L158b"
    /\ UNCHANGED <<status, cfgLoaded, param, options, count, start_time,
                   now, timeout, frameout, signal_received, camera, encoder,
                   calls, cause, nEvents, nRequestComplete, nTimeoutEv,
                   nDeferred, nCalls, lastDefer, intState, stopPending, get>>
    /\ unmapped' = (unmapped /\ signal_received # "SIGUSR2")
    /\ UNCHANGED <<msg, typed, pollSig, nAcceptedSince, lifecycleOK>>

\* Line 158, right operand: signal_received == SIGPIPE
Poll158b ==
    /\ pc = "L158b"
    /\ key' = IF signal_received = "SIGPIPE" THEN StopSignalKey ELSE key
    /\ pc' = "L160"
    /\ UNCHANGED <<status, cfgLoaded, param, options, count, start_time,
                   now, timeout, frameout, signal_received, camera, encoder,
                   calls, cause, nEvents, nRequestComplete, nTimeoutEv,
                   nDeferred, nCalls, lastDefer, intState, stopPending, get>>
    /\ unmapped' = (unmapped /\ signal_received # "SIGPIPE")
    /\ UNCHANGED <<msg, typed, pollSig, nAcceptedSince, lifecycleOK>>

\* signal_received left as it is.
SignalKept(sig) == sig

\* Line 160: the value written to signal_received.
ClearedSignal(sig) == NoSignal

\* Lines 160-162: signal_received = 0; return key;
Poll160 ==
    /\ pc = "L160"
    /\ signal_received' = ClearedSignal(signal_received)
    /\ pc' = "L214"
    /\ UNCHANGED <<status, cfgLoaded, param, options, count, start_time,
                   now, key, timeout, frameout, camera, encoder, calls, cause,
                   nEvents, nRequestComplete, nTimeoutEv, nDeferred, nCalls,
                   lastDefer, intState, stopPending, get>>
    /\ unmapped' = FALSE
    /\ UNCHANGED <<msg, typed, pollSig, nAcceptedSince, lifecycleOK>>

\* default_signal_handler(signal_number), run asynchronously for a signal
\* registered in lines 190-196.
Handler ==
    /\ pc \in HandlerPcs
    /\ \E s \in Signals :
          /\ signal_received' = s
          /\ unmapped' = (s \in MappedSignals)
          /\ intState' = IF s = "SIGINT" /\ intState = "none"
                         THEN "delivered" ELSE intState
    /\ stopPending' = FALSE
    /\ UNCHANGED <<pc, status, cfgLoaded, param, options, count,
                   start_time, now, key, timeout, frameout, camera, encoder,
                   calls, cause, nEvents, nRequestComplete, nTimeoutEv,
                   nDeferred, nCalls, lastDefer, get>>
    /\ pollSig' = IF pc \in PollPcs THEN "changed" ELSE pollSig
    /\ UNCHANGED <<msg, typed, nAcceptedSince, lifecycleOK>>

\* ------------------------------------------------- event_loop, lines 214-239
\* timeout without the test that no frame limit is set.
TimeoutCondIgnoringFrames(opt, t, start) ==
    opt.timeout # 0 /\ (t - start) > opt.timeout

\* timeout with >= in place of >.
TimeoutCondInclusive(opt, t, start) ==
    opt.frames = 0 /\ opt.timeout # 0 /\ (t - start) >= opt.timeout

\* Lines 219-220.
TimeoutCond(opt, t, start) ==
    opt.frames = 0 /\ opt.timeout # 0 /\ (t - start) > opt.timeout

\* frameout with > in place of >=.
FrameoutCondStrict(opt, c) == opt.frames # 0 /\ c > opt.frames

\* Line 221.
FrameoutCond(opt, c) == opt.frames # 0 /\ c >= opt.frames

\* Line 222.
StopKey(k) == k = "x" \/ k = "X"

\* Lines 214-221: pulse the sink on newline, read the clock, evaluate timeout
\* and frameout.
Evaluate ==
    /\ pc = "L214"
    /\ calls' = IF key = "\n" THEN Append(calls, "Signal") ELSE calls
    /\ \E t \in now..MaxClock :
          /\ now' = t
          /\ timeout' = TimeoutCond(options, t, start_time)
    /\ frameout' = FrameoutCond(options, count)
    /\ intState' = IF intState = "due" THEN "none" ELSE intState
    /\ pc' = "L222"
    /\ UNCHANGED <<status, cfgLoaded, param, options, count, start_time,
                   key, signal_received, camera, encoder, cause, nEvents,
                   nRequestComplete, nTimeoutEv, nDeferred, nCalls, lastDefer,
                   stopPending, get>>
    /\ typed' = NoLine
    /\ pollSig' = NoSignal
    /\ UNCHANGED <<msg, unmapped, nAcceptedSince, lifecycleOK>>

\* The termination cause, in the order the conditions are tested.
Cause ==
    IF timeout THEN "elapsed-timeout"
    ELSE IF frameout THEN "frame-count-reached"
    ELSE "explicit-stop-key"

\* The shutdown with the encoder stopped first.
ShutdownCallsEncoderFirst == <<"StopEncoder", "StopCamera">>

\* Calls of lines 227-228.
ShutdownCalls == <<"StopCamera", "StopEncoder">>

\* Lines 222-230: a termination condition holds.
Halt ==
    /\ pc = "L222"
    /\ timeout \/ frameout \/ StopKey(key)
    /\ Do(calls, ShutdownCalls)
    /\ cause' = Cause
    /\ pc' = "done"
    /\ status' = "0"
    /\ UNCHANGED <<cfgLoaded, param, options, count, start_time, now,
                   key, timeout, frameout, signal_received, nEvents,
                   nRequestComplete, nTimeoutEv, nDeferred, lastDefer, intState,
                   stopPending, get>>
    /\ UNCHANGED <<msg, typed, pollSig, unmapped, nAcceptedSince>>

\* The buffer encoded but not forwarded to the preview.
DispatchCallsNoPreview == <<"EncodeBuffer">>

\* Calls of lines 232 and 239.
DispatchCalls == <<"EncodeBuffer", "ShowPreview">>

\* start_time never advanced.
StartTimeKept(accepted, start, t) == start

\* Lines 233-238: start_time after EncodeBuffer returned accepted.
StartTimeAfter(accepted, start, t) == IF accepted THEN start ELSE t

\* Lines 233-238 and the loop's count++.
CountAfter(accepted, c) == Increment(IF accepted THEN c ELSE 0)

\* Lines 231-239 and the loop's count++: no termination condition holds.
Dispatch ==
    /\ pc = "L222"
    /\ ~(timeout \/ frameout \/ StopKey(key))
    /\ Do(calls, DispatchCalls)
    /\ \E accepted \in BOOLEAN :
          /\ start_time' = StartTimeAfter(accepted, start_time, now)
          /\ count' = CountAfter(accepted, count)
          /\ nDeferred' = IF accepted THEN nDeferred ELSE nDeferred + 1
          /\ lastDefer' = IF accepted THEN lastDefer ELSE now
          /\ nAcceptedSince' = IF accepted THEN nAcceptedSince + 1 ELSE 0
    /\ key' = NoKey
    /\ timeout' = FALSE
    /\ frameout' = FALSE
    /\ stopPending' = FALSE
    /\ pc' = "wait"
    /\ UNCHANGED <<status, cfgLoaded, param, options, now, signal_received,
                   cause, nEvents, nRequestComplete, nTimeoutEv, intState, get>>
    /\ UNCHANGED <<msg, typed, pollSig, unmapped>>

\* ------------------------------------------------------- specification
IdleGet == [pc |-> "idle"]

MainInit ==
    /\ pc = "main"
    /\ status = "running"
    /\ cfgLoaded = FALSE
    /\ param = 1
    /\ options = [frames |-> 0, timeout |-> 0, keypress |-> FALSE, signal |-> FALSE]
    /\ count = 0
    /\ start_time = 0
    /\ now = 0
    /\ key = NoKey
    /\ timeout = FALSE
    /\ frameout = FALSE
    /\ signal_received = NoSignal
    /\ camera = FALSE
    /\ encoder = FALSE
    /\ calls = <<>>
    /\ cause = "none"
    /\ nEvents = 0
    /\ nRequestComplete = 0
    /\ nTimeoutEv = 0
    /\ nDeferred = 0
    /\ nCalls = [c \in LifecycleCalls |-> 0]
    /\ lastDefer = 0
    /\ intState = "none"
    /\ stopPending = FALSE
    /\ msg = "none"
    /\ typed = NoLine
    /\ pollSig = NoSignal
    /\ unmapped = FALSE
    /\ nAcceptedSince = 0
    /\ lifecycleOK = TRUE

Init == MainInit /\ get = IdleGet

Next ==
    \/ LoadConfig
    \/ Resolve
    \/ MirroredRotation
    \/ Setup
    \/ Start
    \/ EvTimeout
    \/ EvQuit
    \/ EvUnrecognised
    \/ EvRequestComplete
    \/ Poll141
    \/ Poll156
    \/ Poll158a
    \/ Poll158b
    \/ Poll160
    \/ Handler
    \/ Evaluate
    \/ Halt
    \/ Dispatch

Spec == Init /\ [][Next]_vars

\* --------------------------------- specification of the _getValue calls
StoredInts == {-5, -1, 0, 50, 99, 100, 101, 150, 250}

StoredSettings ==
    {Absent, StringSetting("s"), StringSetting("auto"), FloatSetting(1)}
        \cup {IntSetting(n) : n \in StoredInts}

\* The arguments of one call of each overload.
GetInputs ==
    [pc : {"call"}, variant : {"bounded"}, stored : StoredSettings,
     def : {0, 50}, min : {0, 10}, max : {50, 100, 200}]
    \cup [pc : {"call"}, variant : {"int", "float"}, stored : StoredSettings,
          def : {0, 50}, min : {0}, max : {0}]
    \cup [pc : {"call"}, variant : {"string"}, stored : StoredSettings,
          def : {"auto", "none"}, min : {0}, max : {0}]

\* The type an overload converts the setting to.
RequestedType(variant) == IF variant = "bounded" THEN "int" ELSE variant

InitGet ==
    /\ MainInit
    /\ get \in [pc : {"call"}, args : GetInputs]

Outcome(g, r) == [pc |-> "done", args |-> g.args, res |-> r]

GetBounded ==
    /\ get.pc = "call"
    /\ get.args.variant = "bounded"
    /\ get' = Outcome(get, getValueBounded(get.args.stored, get.args.def,
                                           get.args.min, get.args.max))
    /\ UNCHANGED mainVars

GetInt ==
    /\ get.pc = "call"
    /\ get.args.variant = "int"
    /\ get' = Outcome(get, getValueInt(get.args.stored, get.args.def))
    /\ UNCHANGED mainVars

GetFloat ==
    /\ get.pc = "call"
    /\ get.args.variant = "float"
    /\ get' = Outcome(get, getValueFloat(get.args.stored, get.args.def))
    /\ UNCHANGED mainVars

GetString ==
    /\ get.pc = "call"
    /\ get.args.variant = "string"
    /\ get' = Outcome(get, getValueString(get.args.stored, get.args.def))
    /\ UNCHANGED mainVars

NextGet == GetBounded \/ GetInt \/ GetFloat \/ GetString

SpecGet == InitGet /\ [][NextGet]_vars

\* ---------------------------------------------------------------- claims
\* The calls of the current iteration end with the orderly shutdown:
\* StopCamera then StopEncoder, each once.
ShutdownDone ==
    /\ Len(calls) >= 2
    /\ SubSeq(calls, Len(calls) - 1, Len(calls)) = <<"StopCamera", "StopEncoder">>
    /\ Occurrences(calls, "StopCamera") = 1
    /\ Occurrences(calls, "StopEncoder") = 1
    /\ ~camera
    /\ ~encoder

\* C1 as stated: with a frame limit F > 0, every EncodeBuffer accepted and no
\* Timeout event, the loop has exited with cause frame-count-reached once F
\* RequestComplete events were handled: it exits on the F-th of them and never
\* waits for an (F+1)-th.
C1_ExitsAfterFEvents ==
    /\ (pc = "done" /\ cause = "frame-count-reached" /\ nDeferred = 0
            /\ nTimeoutEv = 0)
          => nRequestComplete = options.frames
    /\ ~(pc = "wait" /\ options.frames > 0 /\ nDeferred = 0 /\ nTimeoutEv = 0
            /\ nRequestComplete = options.frames)

\* C1 amended: with a frame limit F > 0 and every EncodeBuffer accepted, the
\* loop exits with cause frame-count-reached at the first RequestComplete event
\* that finds F completed iterations before it. With no Timeout event that is
\* the (F+1)-th RequestComplete event, after exactly F dispatched buffers: F
\* RequestComplete events are not enough. An iteration that handles a Timeout
\* event is a completed iteration too.
C1_ExitsAtEventFPlusOne ==
    /\ (pc = "L222" /\ options.frames > 0 /\ nDeferred = 0)
          => (frameout <=> nRequestComplete + nTimeoutEv >= options.frames + 1)
    /\ (pc = "wait" /\ options.frames > 0 /\ nDeferred = 0)
          => nRequestComplete <= options.frames
    /\ (pc = "done" /\ cause = "frame-count-reached" /\ nDeferred = 0)
          => /\ options.frames > 0
             /\ nRequestComplete + nTimeoutEv >= options.frames + 1
             /\ nTimeoutEv = 0 => nRequestComplete = options.frames + 1
             /\ ShutdownDone

C1_Witness ==
    /\ pc = "done"
    /\ cause = "frame-count-reached"
    /\ nDeferred = 0
    /\ nTimeoutEv = 0
    /\ options.frames = 2
    /\ nRequestComplete = 3

\* C2 as stated: a Timeout event leaves the loop counter and start_time as
\* they were.
C2_TimeoutKeepsRunState ==
    [][nTimeoutEv' # nTimeoutEv
          => (count' = count /\ start_time' = start_time)]_vars

\* C3 as stated: whenever event_loop returns, for every termination cause,
\* upstream Quit included, StopCamera and then StopEncoder were called.
C3_ShutdownOnEveryReturn ==
    (pc = "done" /\ cause # "none") => ShutdownDone

\* C3 amended: when event_loop returns with cause elapsed-timeout,
\* frame-count-reached or explicit-stop-key, StopCamera and then StopEncoder
\* were called, each once and in that order; when it returns on an upstream
\* Quit neither was called and camera and encoder are still started.
C3_ShutdownUnlessQuit ==
    /\ (pc = "done" /\ cause \in {"elapsed-timeout", "frame-count-reached",
                                  "explicit-stop-key"})
          => (ShutdownDone /\ status = "0")
    /\ (pc = "done" /\ cause = "upstream-quit")
          => /\ calls = <<>>
             /\ camera
             /\ encoder
             /\ nCalls["StopEncoder"] = 0
             /\ status = "0"

C3_Witness ==
    /\ pc = "done"
    /\ cause = "elapsed-timeout"
    /\ nTimeoutEv > 0
    /\ ShutdownDone

\* C4 as stated: with no frame limit and a timeout T, the iteration exits by
\* elapsed-timeout exactly when now - start_time >= T, equality included.
C4_TimeoutAtEquality ==
    (pc = "L222" /\ options.frames = 0 /\ options.timeout > 0)
        => (timeout <=> now - start_time >= options.timeout)

\* C4 amended: with no frame limit and a timeout T, the loop exits with cause
\* elapsed-timeout at the first RequestComplete iteration at which
\* now - start_time > T, strictly: at now - start_time = T it dispatches the
\* buffer and goes on. start_time is the time recorded after camera start or
\* that of the latest deferred EncodeBuffer result.
C4_TimeoutStrict ==
    /\ start_time = lastDefer
    /\ (pc = "L222" /\ options.frames = 0 /\ options.timeout > 0)
          => (timeout <=> now - start_time > options.timeout)
    /\ (pc = "wait" /\ options.frames = 0 /\ options.timeout > 0)
          => now - start_time <= options.timeout
    /\ (pc = "done" /\ cause = "elapsed-timeout")
          => /\ options.frames = 0
             /\ options.timeout > 0
             /\ now - start_time > options.timeout
             /\ ShutdownDone

C4_Witness ==
    /\ pc = "done"
    /\ cause = "elapsed-timeout"
    /\ nDeferred > 0
    /\ nRequestComplete = 3
    /\ start_time > 0

\* C5 as stated: a call of get_key_or_signal that begins after SIGINT was
\* delivered to the handler returns 'x'.
C5_InterruptYieldsStop ==
    (pc = "L214" /\ intState = "due") => key = "x"

\* C6 as stated: when loadConfig reports failure the process exits with a
\* non-zero status and OpenCamera, StartEncoder, StartCamera and the event loop
\* are never reached.
C6_NoCaptureWithoutConfig ==
    (pc # "main" /\ ~cfgLoaded)
        => /\ nCalls["OpenCamera"] = 0
           /\ nCalls["StartEncoder"] = 0
           /\ nCalls["StartCamera"] = 0
           /\ pc \notin {"wait", "L214", "L222"} \cup PollPcs
           /\ (pc = "done" => status = "-1")

\* C7: a Timeout event makes the loop call StopCamera and then StartCamera,
\* once each and nothing else: the encoder is left running, no key is polled,
\* no termination condition is evaluated, no buffer is dispatched, the loop
\* does not exit and waits for the next event.
C7_TimeoutRestartsCamera ==
    [][nTimeoutEv' # nTimeoutEv
          => /\ pc = "wait" /\ pc' = "wait"
             /\ status' = "running"
             /\ cause' = "none"
             /\ calls' = <<"StopCamera", "StartCamera">>
             /\ nCalls'["StopCamera"] = nCalls["StopCamera"] + 1
             /\ nCalls'["StartCamera"] = nCalls["StartCamera"] + 1
             /\ nCalls'["StopEncoder"] = nCalls["StopEncoder"]
             /\ nCalls'["StartEncoder"] = nCalls["StartEncoder"]
             /\ camera'
             /\ encoder /\ encoder'
             /\ UNCHANGED <<key, timeout, frameout, now, signal_received,
                            nRequestComplete, nDeferred>>]_vars

C7_Witness ==
    /\ pc = "wait"
    /\ nTimeoutEv = 2
    /\ calls = <<"StopCamera", "StartCamera">>
    /\ nRequestComplete = 1

\* C8 as stated: on every lookup error, key absent or type mismatch, a
\* _getValue call returns the default and raises nothing.
C8_GetNeverFails ==
    (get.pc = "done"
        /\ LookupError(get.args.stored, RequestedType(get.args.variant)) # "none")
        => (get.res.exc = "none" /\ get.res.v = get.args.def)

\* C9 as stated: the bounded lookup returns a value outside [min, max] for a
\* stored value above max, 0 for a stored value below 0 and the stored value
\* itself within [0, max].
C9_OverMaxYieldsOutOfRange ==
    (get.pc = "done" /\ get.args.variant = "bounded" /\ get.args.stored.t = "int")
        => LET v == get.args.stored.v IN
           /\ get.res.exc = "none"
           /\ v > get.args.max => get.res.v \notin get.args.min..get.args.max
           /\ v < 0 => get.res.v = 0
           /\ (0 <= v /\ v <= get.args.max) => get.res.v = v

\* C10: with the signal option set, when SIGUSR2 or SIGPIPE is pending at a
\* RequestComplete event and stays pending while get_key_or_signal runs, the
\* call returns 'x' and the iteration ends as for a typed 'x': StopCamera,
\* then StopEncoder, return, with no EncodeBuffer or ShowPreview.
C10_StopSignalStops ==
    (options.signal /\ stopPending)
        => \/ pc \in PollPcs
           \/ (pc \in {"L214", "L222"} /\ key = "x")
           \/ /\ pc = "done"
              /\ status = "0"
              /\ calls = <<"get_key_or_signal", "StopCamera", "StopEncoder">>
              /\ ShutdownDone

C10_Witness ==
    /\ pc = "done"
    /\ options.signal
    /\ stopPending
    /\ cause = "explicit-stop-key"
    /\ nRequestComplete = 2

\* C11: a message that is none of Timeout, Quit and RequestComplete is fatal:
\* the exception leaves event_loop, main returns -1, and for that message no
\* key is polled, no buffer is encoded or previewed, no camera or encoder call
\* is made, and count and start_time are not modified.
C11_UnrecognisedIsFatal ==
    [][(nEvents' # nEvents /\ msg' = "Other")
          => /\ pc = "wait" /\ pc' = "done"
             /\ status' = "-1"
             /\ calls' = <<>>
             /\ UNCHANGED <<count, start_time, key, cause, camera, encoder,
                            nCalls, signal_received, nRequestComplete,
                            nDeferred>>]_vars

C11_Witness ==
    /\ pc = "done"
    /\ msg = "Other"
    /\ status = "-1"
    /\ nRequestComplete = 1
    /\ count = 1

\* C12 as stated: when the pending signal is not SIGINT, the keypress option is
\* set and a line is available, get_key_or_signal returns the first character
\* of that line, whatever the signal option and the pending signal.
C12_TypedKeyReturned ==
    (pc = "L214" /\ typed # NoLine) => key = typed

\* C12 amended: when the pending signal is not SIGINT, the keypress option is
\* set and a line is available, get_key_or_signal returns the first character
\* of that line if the signal option is off, or if it is on and no signal is
\* pending during the call. With the signal option on, a pending SIGUSR1
\* replaces the typed character by newline and a pending SIGUSR2 or SIGPIPE
\* replaces it by 'x': the typed character, a typed 'x' included, is dropped.
C12_TypedKeyUnlessSignal ==
    (pc = "L214" /\ typed # NoLine)
        => /\ options.keypress
           /\ ~options.signal => key = typed
           /\ (options.signal /\ pollSig = NoSignal) => key = typed
           /\ (options.signal /\ pollSig = "SIGUSR1") => key = "\n"
           /\ (options.signal /\ pollSig \in {"SIGUSR2", "SIGPIPE"}) => key = "x"

C12_Witness ==
    /\ pc = "L214"
    /\ typed = "x"
    /\ options.signal
    /\ pollSig = "SIGUSR1"
    /\ key = "\n"

\* C13: start_time and the counter are reset together and only when
\* EncodeBuffer returned false: such a step assigns now to start_time and 0 to
\* the counter (1 once the loop's count++ has run); after an accepted buffer
\* start_time is kept and the counter only incremented; no other step of the
\* loop assigns start_time or lowers the counter.
C13_ResetTogether ==
    [][/\ (nDeferred' # nDeferred)
             => (pc = "L222" /\ start_time' = now /\ count' = 1)
       /\ (pc = "L222" /\ pc' = "wait" /\ nDeferred' = nDeferred)
             => (start_time' = start_time /\ count' = count + 1)
       /\ (pc # "start" /\ start_time' # start_time) => nDeferred' # nDeferred
       /\ (pc # "start" /\ count' \notin {count, count + 1})
             => nDeferred' # nDeferred]_vars

C13_Witness ==
    /\ pc = "wait"
    /\ nRequestComplete = 2
    /\ nDeferred = 1
    /\ nAcceptedSince = 0
    /\ start_time = now
    /\ start_time > 0
    /\ count = 1

\* C14 as stated: when only RequestComplete events arrive and every
\* EncodeBuffer returns false, the counter is 0 and start_time is the
\* iteration's now after each iteration, and with a frame limit of 2 the loop
\* does not exit with cause frame-count-reached.
C14_CountZeroWhileDeferred ==
    /\ (pc = "wait" /\ nTimeoutEv = 0 /\ nRequestComplete > 0
            /\ nDeferred = nRequestComplete)
          => (count = 0 /\ start_time = now)
    /\ ~(pc = "done" /\ cause = "frame-count-reached" /\ options.frames = 2
            /\ nTimeoutEv = 0 /\ nDeferred = nRequestComplete - 1)

\* C15: timeout and frameout are never both true; with a frame limit set the
\* loop never exits by elapsed-timeout, however long it has run; with no frame
\* limit it never exits by frame-count-reached, however large the counter.
C15_CausesExclusive ==
    /\ ~(timeout /\ frameout)
    /\ options.frames > 0 => (~timeout /\ cause # "elapsed-timeout")
    /\ options.frames = 0 => (~frameout /\ cause # "frame-count-reached")

C15_Witness ==
    /\ pc = "L222"
    /\ options.frames > 0
    /\ options.timeout > 0
    /\ now - start_time > options.timeout
    /\ ~timeout
    /\ ~frameout

\* C16: an iteration for a RequestComplete event on which no termination
\* condition holds calls EncodeBuffer once and then ShowPreview once, whether
\* EncodeBuffer accepted or deferred; an iteration that halts, and one for a
\* Timeout, Quit or unrecognised message, calls neither, and nothing is
\* dispatched after the StopCamera of the shutdown.
C16_DispatchOncePerFrame ==
    /\ (pc = "wait" /\ msg = "RequestComplete")
          => calls \in {<<"get_key_or_signal", "EncodeBuffer", "ShowPreview">>,
                        <<"get_key_or_signal", "Signal", "EncodeBuffer",
                          "ShowPreview">>}
    /\ (pc # "wait" \/ msg # "RequestComplete")
          => /\ Occurrences(calls, "EncodeBuffer") = 0
             /\ Occurrences(calls, "ShowPreview") = 0

C16_Witness ==
    /\ pc = "wait"
    /\ msg = "RequestComplete"
    /\ nRequestComplete = 2
    /\ nDeferred = 1
    /\ nAcceptedSince = 1
    /\ calls = <<"get_key_or_signal", "EncodeBuffer", "ShowPreview">>

\* C17: with the signal option set, a SIGUSR1 that is pending while
\* get_key_or_signal runs makes the call return newline and leaves
\* signal_received cleared; Signal() is called once in an iteration whose key
\* is newline and in no other; and a SIGUSR1 that a call has mapped is not
\* mapped again: whenever the field holds SIGUSR1 outside line 160, it is a
\* delivery no call has mapped yet.
C17_TriggerPulsesOnce ==
    /\ (pc = "L214" /\ options.signal /\ pollSig = "SIGUSR1")
          => (key = "\n" /\ signal_received = NoSignal)
    /\ pc = "L222"
          => Occurrences(calls, "Signal") = (IF key = "\n" THEN 1 ELSE 0)
    /\ pc \in PollPcs \cup {"L214"} => Occurrences(calls, "Signal") = 0
    /\ Occurrences(calls, "Signal") <= 1
    /\ (options.signal /\ signal_received = "SIGUSR1" /\ pc # "L160")
          => unmapped

C17_Witness ==
    /\ pc = "L222"
    /\ options.signal
    /\ ~options.keypress
    /\ key = "\n"
    /\ calls = <<"get_key_or_signal", "Signal">>
    /\ signal_received = NoSignal
    /\ nRequestComplete = 2

\* C18 as stated: when the loop exits with cause frame-count-reached, exactly
\* F buffers were accepted by EncodeBuffer since the latest deferred one (or
\* since the start).
C18_AcceptedSinceDeferIsF ==
    (pc = "done" /\ cause = "frame-count-reached" /\ nTimeoutEv = 0)
        => nAcceptedSince = options.frames

\* C19 as stated: with the signal option set, the clearing of signal_received
\* in line 160 never erases a SIGUSR1, SIGUSR2 or SIGPIPE that no
\* get_key_or_signal call has mapped to its key.
C19_ClearErasesNothingUnmapped ==
    [][(options.signal /\ pc = "L160" /\ pc' = "L214") => ~unmapped]_vars

\* C20: whenever the loop is in app.Wait() camera and encoder are started;
\* every StartCamera finds the camera stopped and the encoder started, every
\* StopCamera finds the camera started; StartEncoder is called once, before the
\* first StartCamera; StopEncoder is called at most once, with the camera
\* stopped, and no call follows it.
C20_LifecycleWellFormed ==
    /\ lifecycleOK
    /\ pc = "wait" => (camera /\ encoder)
    /\ nCalls["StartEncoder"] <= 1
    /\ nCalls["StartCamera"] > 0 => nCalls["StartEncoder"] = 1
    /\ pc \in HandlerPcs \cup {"L214", "L222"} => nCalls["StartEncoder"] = 1
    /\ nCalls["StopEncoder"] <= 1
    /\ nCalls["StopEncoder"] = 1 => (pc = "done" /\ ~camera /\ ~encoder)

C20_Witness ==
    /\ pc = "done"
    /\ lifecycleOK
    /\ nTimeoutEv = 1
    /\ nCalls["StartCamera"] = 2
    /\ nCalls["StopCamera"] = 2
    /\ nCalls["StopEncoder"] = 1

====
